---- MODULE Spec2Model ----
(***************************************************************************)
(* A model of the f-system frontend's real-time synchronisation client:    *)
(*   - the Listing Reconciler of src/frontend/src/App.js (the React state  *)
(*     fileList / currentFolder* / navigationStack, the three WebSocket    *)
(*     event handlers, navigation and the listing fetches), and            *)
(*   - the Connection Manager of src/frontend/src/services/websocket.js    *)
(*     (the WebSocketService singleton, its sockets and its timers).       *)
(*                                                                         *)
(* SpecReconciler runs the App component against an arbitrary stream of    *)
(* notifications (any kind, any path, any item, any number of times: the   *)
(* out-of-order, at-least-once stream the service may dispatch).           *)
(* SpecManager runs the WebSocketService against an arbitrary caller and   *)
(* an arbitrary transport; SpecRecovery adds timers that fire,             *)
(* SpecDispatcher the event registry and inbound frames, SpecSendFailure a *)
(* transport whose send raises.  SpecNavigation runs the App's navigation  *)
(* with clicks that land before the loading indicator is rendered.         *)
(* SpecSync and SpecResubscribe run the App and the service together       *)
(* against a server (the listing endpoint and the notifications of the     *)
(* folder store), which is not part of the sources and is modelled from    *)
(* its specified boundary: in SpecSync the connection stays OPEN while the *)
(* store changes, in SpecResubscribe the connection is lost and repaired.  *)
(***************************************************************************)
EXTENDS Integers, Sequences, FiniteSets, Bags, TLC

(***************************************************************************)
(* Bounds of the model.                                                    *)
(***************************************************************************)
\* deepest navigationStack explored
MaxDepth == 1
\* most mutation handlers (create / rename / delete) in flight at once
MaxPending == 1
\* most calls the caller makes to the service (connect, subscribePath, disconnect)
MaxCalls == 3
\* most WebSocket objects alive at once (a closed one the service no longer
\* references is garbage)
MaxSockets == 2
\* most registrations the event registry holds at once
MaxRegistrations == 2
\* most changes made to the server's folder store
MaxMutations == 2
\* most changes of currentFolderPath (each re-runs the App's WebSocket effects)
MaxPathChanges == 2

(***************************************************************************)
(* Values.                                                                 *)
(***************************************************************************)
\* JavaScript null
null == "<null>"
ROOT_FOLDER_ID == "9e105426-d861-4b5b-9f0d-ae5f30c41f33"
USER_ID == "userDanilo"

ItemIds == {"1", "2"}
Names == {"a", "b"}
\* an item's type does not change with its name
TypeOf(id) == IF id = "1" THEN "FOLDER" ELSE "FILE"
Items == {[ItemId |-> i, Name |-> n, Type |-> TypeOf(i)] : i \in ItemIds, n \in Names}

\* the path tags a notification may carry
MsgPaths == {"", "/a"}

Range(s) == {s[i] : i \in DOMAIN s}
DistinctIds(s) == \A i, j \in DOMAIN s : s[i].ItemId = s[j].ItemId => i = j
\* what fetchFolderContents may resolve to: any listing with pairwise distinct ids
Listings ==
  {s \in UNION {[1..n -> Items] : n \in 0..Cardinality(ItemIds)} : DistinctIds(s)}

AddedMessages ==
  {[type |-> "ADDED", path |-> p, data |-> it] : p \in MsgPaths, it \in Items}
DeletedMessages ==
  {[type |-> "DELETED", path |-> p, data |-> [ItemId |-> i]] : p \in MsgPaths, i \in ItemIds}
RenamedMessages ==
  {[type |-> "RENAMED", path |-> p, data |-> [item |-> it]] : p \in MsgPaths, it \in Items}

NoEvent == [type |-> "none"]

\* websocket.js constructor
maxReconnectAttempts == 5
reconnectDelay == 1000

\* the paths a caller may subscribe to ('' is the root)
Paths == {"", "/docs"}
SocketIds == 1..MaxSockets
\* this.ws = null: the service references no WebSocket
NullSocket == 0
NoSocket == [readyState |-> "NONE", sent |-> <<>>, by |-> "none"]

\* the keys of this.eventHandlers
EventTypes == {"ADDED", "DELETED", "RENAMED"}
\* properties every object literal inherits from Object.prototype
ObjectPrototypeKeys ==
  {"constructor", "hasOwnProperty", "isPrototypeOf", "propertyIsEnumerable",
   "toLocaleString", "toString", "valueOf", "__proto__"}
\* the event types a caller or a frame may name
Kinds == EventTypes \cup {"MOVED", "constructor"}
\* the callbacks a caller may register
Handlers == {"h1", "h2"}
\* event.data of an inbound frame: text that is not JSON, the JSON null, or a
\* JSON object with a type
Frames ==
  {[json |-> FALSE, text |-> "{oops"], [json |-> TRUE, value |-> [isNull |-> TRUE]]}
    \cup {[json |-> TRUE, value |-> [type |-> k, path |-> ""]] : k \in Kinds}
NoDelivery == [socket |-> NullSocket]

VARIABLES
  \* ---- App.js: React state of the App component
  fileList,            \* useState([])
  currentFolderId,     \* useState(null)
  currentFolderName,   \* useState('ROOT')
  currentFolderPath,   \* useState('')
  navigationStack,     \* useState([])
  loading,             \* useState(true)
  error,               \* useState(null)
  \* ---- App.js: promises in flight
  pendingSetLoading,   \* setLoading(true) of the load effect, queued and not yet rendered
  loads,               \* loadInitialFolder closures awaiting fetchFolderContents
  refreshes,           \* mutation handlers awaiting the API call or the re-fetch
  \* ---- the notification the last step dispatched, with fileList before it, or
  \*      the listing fetch the last step completed
  lastEvent,
  \* ---- websocket.js: the WebSocketService singleton
  wsService,           \* its fields: ws, userId, currentPath, reconnectAttempts
  \* ---- the browser
  sockets,             \* the WebSocket objects: readyState, the frames sent on it
                       \* (each with the code path that sent it), and who created it
  reconnectTimers,     \* pending setTimeout callbacks of attemptReconnect, oldest first
  subscribeTimers,     \* pending setTimeout(..., 10) callbacks of ws.onopen
  announcing,          \* for each of them, oldest first: the WebSocket whose open
                       \* event set it, whether this.ws referenced it then, and
                       \* whether it has closed or been released since
  constructorThrows,   \* whether new WebSocket(wsUrl) raises for this page's URL
  uncaught,            \* the last step ended with an exception leaving the service
  delivery,            \* the frame the last step received, and the calls it made
  \* ---- the caller
  calls,               \* calls an arbitrary caller made to the service so far, or
                       \* runs of the App's WebSocket effects after the mount
  \* ---- the server: the folder store, the listing responses and the
  \*      notifications in flight, the kind of the last exchange completed
  server

appVars == <<fileList, currentFolderId, currentFolderName, currentFolderPath,
             navigationStack, loading, error, pendingSetLoading, loads, refreshes,
             lastEvent>>

wsVars == <<wsService, sockets, reconnectTimers, subscribeTimers, announcing,
           constructorThrows,
           uncaught, delivery, calls>>

vars == <<appVars, wsVars, server>>

(***************************************************************************)
(* App.js: the three WebSocket event handlers, as the functional updates   *)
(* they hand to setFileList.                                               *)
(***************************************************************************)
\* mutants of the handlers (each a plausible slip in the code)
handleAddedEvent_noCheck(prevList, message) == Append(prevList, message.data)

handleAddedEvent_byName(prevList, message) ==
  LET newItem == message.data
      exists == \E i \in DOMAIN prevList : prevList[i].Name = newItem.Name
  IN IF ~exists THEN Append(prevList, newItem) ELSE prevList

\* splice(findIndex(...), 1): an index of -1 removes the last item
handleDeletedEvent_splice(prevList, message) ==
  IF \E i \in DOMAIN prevList : prevList[i].ItemId = message.data.ItemId
  THEN LET keep(item) == item.ItemId # message.data.ItemId IN SelectSeq(prevList, keep)
  ELSE SubSeq(prevList, 1, Len(prevList) - 1)

handleAddedEvent(prevList, message) ==
  LET newItem == message.data
      exists == \E i \in DOMAIN prevList : prevList[i].ItemId = newItem.ItemId
  IN IF ~exists THEN Append(prevList, newItem) ELSE prevList

handleDeletedEvent(prevList, message) ==
  LET deletedItemId == message.data.ItemId
      keep(item) == item.ItemId # deletedItemId
  IN SelectSeq(prevList, keep)

\* mutants of the RENAMED handler: an upsert, and a remove-then-append
handleRenamedEvent_upsert(prevList, message) ==
  LET updatedItem == message.data.item
  IN IF \E i \in DOMAIN prevList : prevList[i].ItemId = updatedItem.ItemId
     THEN [i \in DOMAIN prevList |->
             IF prevList[i].ItemId = updatedItem.ItemId THEN updatedItem ELSE prevList[i]]
     ELSE Append(prevList, updatedItem)

handleRenamedEvent_moveToEnd(prevList, message) ==
  LET updatedItem == message.data.item
      keep(item) == item.ItemId # updatedItem.ItemId
  IN IF \E i \in DOMAIN prevList : prevList[i].ItemId = updatedItem.ItemId
     THEN Append(SelectSeq(prevList, keep), updatedItem)
     ELSE prevList

handleRenamedEvent(prevList, message) ==
  LET updatedItem == message.data.item
  IN [i \in DOMAIN prevList |->
        IF prevList[i].ItemId = updatedItem.ItemId THEN updatedItem ELSE prevList[i]]

(***************************************************************************)
(* App.js: loadInitialFolder's path computation.                           *)
(***************************************************************************)
RECURSIVE join(_)
join(parts) ==
  IF Len(parts) = 0 THEN ""
  ELSE IF Len(parts) = 1 THEN parts[1]
  ELSE parts[1] \o "/" \o join(Tail(parts))

folderPath(stack, name) ==
  IF Len(stack) = 0 /\ name = "ROOT" THEN ""
  ELSE LET notRoot(f) == f.name # "ROOT"
           stackNames == [i \in DOMAIN SelectSeq(stack, notRoot) |->
                            SelectSeq(stack, notRoot)[i].name]
           pathParts == IF name # "ROOT" THEN Append(stackNames, name) ELSE stackNames
       IN "/" \o join(pathParts)

\* currentFolderId || ROOT_FOLDER_ID
orRoot(id) == IF id = null THEN ROOT_FOLDER_ID ELSE id

\* the navigation bar, the forms and the table render only when !loading && !error
Visible == ~loading /\ error = null

\* a change of currentFolderId / navigationStack / currentFolderName re-runs the
\* effect: loadInitialFolder() begins, capturing the new values
startLoad(id, stack, name) ==
  /\ loading' = TRUE
  /\ error' = null
  /\ loads' = loads \cup {[folderId |-> orRoot(id), navigationStack |-> stack,
                           currentFolderName |-> name]}

InitApp ==
  /\ fileList = <<>>
  /\ currentFolderId = null
  /\ currentFolderName = "ROOT"
  /\ currentFolderPath = ""
  /\ navigationStack = <<>>
  /\ loading = TRUE
  /\ error = null
  /\ pendingSetLoading = FALSE
  \* the mount effect has called loadInitialFolder()
  /\ loads = {[folderId |-> ROOT_FOLDER_ID, navigationStack |-> <<>>,
               currentFolderName |-> "ROOT"]}
  /\ refreshes = {}
  /\ lastEvent = NoEvent

(***************************************************************************)
(* Notifications dispatched to the handlers the App registered.            *)
(***************************************************************************)
dispatched(message, newList) ==
  /\ fileList' = newList
  /\ lastEvent' = [type |-> message.type, message |-> message, prevList |-> fileList]
  /\ UNCHANGED <<currentFolderId, currentFolderName, currentFolderPath,
                 navigationStack, loading, error, pendingSetLoading, loads, refreshes>>

OnAdded ==
  /\ \E message \in AddedMessages :
        dispatched(message, handleAddedEvent(fileList, message))
  /\ UNCHANGED <<wsVars, server>>

OnDeleted ==
  /\ \E message \in DeletedMessages :
        dispatched(message, handleDeletedEvent(fileList, message))
  /\ UNCHANGED <<wsVars, server>>

OnRenamed ==
  /\ \E message \in RenamedMessages :
        dispatched(message, handleRenamedEvent(fileList, message))
  /\ UNCHANGED <<wsVars, server>>

(***************************************************************************)
(* Navigation.                                                             *)
(***************************************************************************)
handleFolderClick ==
  \E item \in Range(fileList) :
    /\ Visible
    /\ item.Type = "FOLDER"
    /\ Len(navigationStack) < MaxDepth
    /\ LET stack == Append(navigationStack,
                           [id |-> orRoot(currentFolderId), name |-> currentFolderName])
       IN /\ navigationStack' = stack
          /\ currentFolderId' = item.ItemId
          /\ currentFolderName' = item.Name
          /\ startLoad(item.ItemId, stack, item.Name)
    /\ lastEvent' = NoEvent
    /\ UNCHANGED <<wsVars, server>>
    /\ UNCHANGED <<fileList, currentFolderPath, pendingSetLoading, refreshes>>

handleGoBack ==
  /\ Visible
  /\ Len(navigationStack) > 0
  /\ LET previousFolder == navigationStack[Len(navigationStack)]
         newStack == SubSeq(navigationStack, 1, Len(navigationStack) - 1)
     IN /\ navigationStack' = newStack
        /\ currentFolderId' = previousFolder.id
        /\ currentFolderName' = previousFolder.name
        /\ startLoad(previousFolder.id, newStack, previousFolder.name)
  /\ lastEvent' = NoEvent
  /\ UNCHANGED <<wsVars, server>>
  /\ UNCHANGED <<fileList, currentFolderPath, pendingSetLoading, refreshes>>

handleGoToRoot ==
  /\ Visible
  /\ Len(navigationStack) > 0
  /\ navigationStack' = <<>>
  /\ currentFolderId' = null
  /\ currentFolderName' = "ROOT"
  /\ startLoad(null, <<>>, "ROOT")
  /\ lastEvent' = NoEvent
  /\ UNCHANGED <<wsVars, server>>
  /\ UNCHANGED <<fileList, currentFolderPath, pendingSetLoading, refreshes>>

\* loadInitialFolder: fetchFolderContents resolved
LoadResolved ==
  \E l \in loads, contents \in Listings :
    /\ fileList' = contents
    /\ currentFolderPath' = folderPath(l.navigationStack, l.currentFolderName)
    /\ loading' = FALSE
    /\ pendingSetLoading' = FALSE
    /\ loads' = loads \ {l}
    /\ lastEvent' = [type |-> "LOADED", load |-> l]
    /\ UNCHANGED <<wsVars, server>>
    /\ UNCHANGED <<currentFolderId, currentFolderName, navigationStack, error, refreshes>>

\* loadInitialFolder: fetchFolderContents rejected
LoadRejected ==
  \E l \in loads :
    /\ error' = "Failed to load folder contents. Please try again."
    /\ loading' = FALSE
    /\ pendingSetLoading' = FALSE
    /\ loads' = loads \ {l}
    /\ lastEvent' = NoEvent
    /\ UNCHANGED <<wsVars, server>>
    /\ UNCHANGED <<fileList, currentFolderId, currentFolderName, currentFolderPath,
                   navigationStack, refreshes>>

(***************************************************************************)
(* The mutation handlers: await the API call, then re-fetch the folder and *)
(* setFileList(contents).                                                  *)
(***************************************************************************)
startMutation(op) ==
  /\ Visible
  /\ Cardinality(refreshes) < MaxPending
  /\ refreshes' = refreshes \cup
       {[op |-> op, folderId |-> orRoot(currentFolderId), stage |-> "api"]}
  /\ lastEvent' = NoEvent
  /\ UNCHANGED <<wsVars, server>>
  /\ UNCHANGED <<fileList, currentFolderId, currentFolderName, currentFolderPath,
                 navigationStack, loading, error, pendingSetLoading, loads>>

handleCreateFolder == startMutation("createFolder")

handleCreateFile == startMutation("createFile")

\* the rename button is rendered on FOLDER rows
handleRenameFolder ==
  /\ \E item \in Range(fileList) : item.Type = "FOLDER"
  /\ startMutation("renameFolder")

\* the delete button is rendered on every row
handleDeleteItem ==
  /\ fileList # <<>>
  /\ startMutation("deleteItem")

\* the API call resolved: the handler goes on to fetchFolderContents
MutationResolved ==
  \E r \in refreshes :
    /\ r.stage = "api"
    /\ refreshes' = (refreshes \ {r}) \cup {[r EXCEPT !.stage = "fetch"]}
    /\ lastEvent' = NoEvent
    /\ UNCHANGED <<wsVars, server>>
    /\ UNCHANGED <<fileList, currentFolderId, currentFolderName, currentFolderPath,
                   navigationStack, loading, error, pendingSetLoading, loads>>

\* the re-fetch resolved: setFileList(contents)
RefreshResolved ==
  \E r \in refreshes, contents \in Listings :
    /\ r.stage = "fetch"
    /\ fileList' = contents
    /\ refreshes' = refreshes \ {r}
    /\ lastEvent' = NoEvent
    /\ UNCHANGED <<wsVars, server>>
    /\ UNCHANGED <<currentFolderId, currentFolderName, currentFolderPath,
                   navigationStack, loading, error, pendingSetLoading, loads>>

\* the API call or the re-fetch rejected: the catch block sets the error
MutationRejected ==
  \E r \in refreshes :
    /\ error' = "Failed. Please try again."
    /\ refreshes' = refreshes \ {r}
    /\ lastEvent' = NoEvent
    /\ UNCHANGED <<wsVars, server>>
    /\ UNCHANGED <<fileList, currentFolderId, currentFolderName, currentFolderPath,
                   navigationStack, loading, pendingSetLoading, loads>>

NextReconciler ==
  \/ OnAdded
  \/ OnDeleted
  \/ OnRenamed
  \/ handleFolderClick
  \/ handleGoBack
  \/ handleGoToRoot
  \/ LoadResolved
  \/ LoadRejected
  \/ handleCreateFolder
  \/ handleCreateFile
  \/ handleRenameFolder
  \/ handleDeleteItem
  \/ MutationResolved
  \/ RefreshResolved
  \/ MutationRejected


(***************************************************************************)
(* websocket.js: the WebSocketService.  Its methods and the handlers it    *)
(* installs are functions of the world w = [svc, sockets, reconnectTimers, *)
(* subscribeTimers, throws]: the service object and the browser state they *)
(* touch, with the exception in flight (raised) and the frame received.    *)
(* announcing keeps, for every pending callback subscribeTimers counts, the *)
(* WebSocket whose open event set it.                                      *)
(***************************************************************************)
InitService ==
  [ws |-> NullSocket, userId |-> null, currentPath |-> null, reconnectAttempts |-> 0,
   eventHandlers |-> [k \in EventTypes |-> <<>>]]

InitManager ==
  /\ wsService = InitService
  /\ sockets = [s \in SocketIds |-> NoSocket]
  /\ reconnectTimers = <<>>
  /\ subscribeTimers = 0
  /\ announcing = <<>>
  /\ constructorThrows \in BOOLEAN
  /\ uncaught = FALSE
  /\ delivery = NoDelivery
  /\ calls = 0

World ==
  [svc |-> wsService, sockets |-> sockets,
   reconnectTimers |-> reconnectTimers, subscribeTimers |-> subscribeTimers,
   announcing |-> announcing,
   throws |-> constructorThrows, sendThrows |-> FALSE,
   raised |-> FALSE, delivery |-> NoDelivery]

\* WebSocket s has closed or been released: noted on the pending callbacks its open
\* event set
gone(w, s) ==
  [w EXCEPT !.announcing =
     [i \in DOMAIN @ |-> IF @[i].socket = s THEN [@[i] EXCEPT !.gone = TRUE] ELSE @[i]]]

\* a throw statement or a failing call, and a catch block
raise(w) == [w EXCEPT !.raised = TRUE]
catch(w) == [w EXCEPT !.raised = FALSE]

\* this.ws && this.ws.readyState === WebSocket.OPEN
isOpen(w) == w.svc.ws # NullSocket /\ w.sockets[w.svc.ws].readyState = "OPEN"

\* a slot for a new WebSocket: an unused one, or that of the closed WebSocket the
\* service is about to stop referencing
FreeSockets(w) == {s \in SocketIds : w.sockets[s].readyState \in {"NONE", "CLOSED"}}
newSocket(w) == CHOOSE s \in FreeSockets(w) : \A t \in FreeSockets(w) : s <= t

\* a closed WebSocket the service does not reference can do nothing more
collect(w) ==
  [w EXCEPT !.sockets =
     [s \in SocketIds |->
        IF w.sockets[s].readyState = "CLOSED" /\ w.svc.ws # s
        THEN NoSocket ELSE w.sockets[s]]]

\* ws.send(JSON.stringify(message)) on socket s; `by` names the code path
send(w, s, message, by) ==
  IF w.sockets[s].readyState = "OPEN"
  THEN IF w.sendThrows THEN raise(w)
       ELSE [w EXCEPT !.sockets[s].sent = Append(@, [message |-> message, by |-> by])]
  ELSE w

\* mutant: retries while reconnectAttempts <= maxReconnectAttempts
attemptReconnect_offByOne(w) ==
  IF w.svc.reconnectAttempts <= maxReconnectAttempts
  THEN [w EXCEPT !.svc.reconnectAttempts = @ + 1,
                 !.reconnectTimers =
                    Append(@, [delay |-> reconnectDelay * (w.svc.reconnectAttempts + 1),
                               after |-> w.subscribeTimers])]
  ELSE w

\* mutant: the delay is computed before the counter is incremented
attemptReconnect_delayFirst(w) ==
  IF w.svc.reconnectAttempts < maxReconnectAttempts
  THEN [w EXCEPT !.svc.reconnectAttempts = @ + 1,
                 !.reconnectTimers =
                    Append(@, [delay |-> reconnectDelay * w.svc.reconnectAttempts,
                               after |-> w.subscribeTimers])]
  ELSE w

\* attemptReconnect(): the timer it sets is due after every 10 ms timer already
\* pending (`after` counts those)
attemptReconnect(w) ==
  IF w.svc.reconnectAttempts < maxReconnectAttempts
  THEN [w EXCEPT !.svc.reconnectAttempts = @ + 1,
                 !.reconnectTimers =
                    Append(@, [delay |-> reconnectDelay * (w.svc.reconnectAttempts + 1),
                               after |-> w.subscribeTimers])]
  ELSE w

\* mutant: connect without its early return
connect_noGuard(w, userId, by) ==
  LET w1 == [w EXCEPT !.svc.userId = userId]
  IN IF w.throws THEN attemptReconnect(w1)
     ELSE IF FreeSockets(w) = {} THEN w1
     ELSE [w1 EXCEPT !.svc.ws = newSocket(w),
                     !.sockets[newSocket(w)] =
                        [readyState |-> "CONNECTING", sent |-> <<>>, by |-> by]]

\* mutant: the catch block lets the constructor's exception go on to the caller
connect_rethrow(w, userId, by) ==
  IF isOpen(w) THEN w
  ELSE LET w1 == [w EXCEPT !.svc.userId = userId]
       IN IF w.throws THEN raise(w1)
          ELSE [w1 EXCEPT !.svc.ws = newSocket(w),
                          !.sockets[newSocket(w)] =
                             [readyState |-> "CONNECTING", sent |-> <<>>, by |-> by]]

\* connect(userId); `by`: who calls
connect(w, userId, by) ==
  IF isOpen(w) THEN w
  ELSE LET w1 == [w EXCEPT !.svc.userId = userId]
       IN IF w.throws THEN attemptReconnect(w1)
          ELSE [w1 EXCEPT !.svc.ws = newSocket(w),
                          !.sockets[newSocket(w)] =
                             [readyState |-> "CONNECTING", sent |-> <<>>, by |-> by]]

\* mutant: the intent is recorded only when it cannot be sent at once
subscribePath_recordIfClosed(w, path) ==
  IF isOpen(w)
  THEN send(w, w.svc.ws, [type |-> "subscribe", path |-> path], "subscribePath")
  ELSE [w EXCEPT !.svc.currentPath = path]

\* subscribePath(path): the send is inside try/catch
subscribePath(w, path) ==
  LET w1 == [w EXCEPT !.svc.currentPath = path]
  IN IF isOpen(w1)
     THEN catch(send(w1, w1.svc.ws, [type |-> "subscribe", path |-> path], "subscribePath"))
     ELSE w1

\* disconnect(): ws.close() starts the closing handshake, the close event follows
disconnect(w) ==
  IF w.svc.ws # NullSocket
  THEN [gone(w, w.svc.ws) EXCEPT !.sockets[w.svc.ws].readyState =
                                    IF @ \in {"CONNECTING", "OPEN"} THEN "CLOSING" ELSE @,
                                 !.svc.ws = NullSocket]
  ELSE w

\* mutant: the open handler leaves the attempt counter alone
onopen_noReset(w, s) ==
  LET w1 == [w EXCEPT !.sockets[s].readyState = "OPEN"]
  IN IF w1.svc.ws = NullSocket THEN raise(w1)
     ELSE IF w1.svc.currentPath # null
          THEN [w1 EXCEPT !.subscribeTimers = @ + 1,
                          !.announcing =
                             Append(@, [socket |-> s, referenced |-> w1.svc.ws = s,
                                        gone |-> FALSE])]
          ELSE w1

\* mutant: the open handler announces nothing (only subscribePath does)
onopen_noAnnounce(w, s) ==
  LET w1 == [w EXCEPT !.sockets[s].readyState = "OPEN"]
  IN IF w1.svc.ws = NullSocket THEN w1
     ELSE [w1 EXCEPT !.svc.reconnectAttempts = 0]

\* mutant: the open handler tests the intent for truthiness, if (this.currentPath)
onopen_truthy(w, s) ==
  LET w1 == [w EXCEPT !.sockets[s].readyState = "OPEN"]
  IN IF w1.svc.ws = NullSocket THEN raise(w1)
     ELSE LET w2 == [w1 EXCEPT !.svc.reconnectAttempts = 0]
          IN IF w2.svc.currentPath \notin {null, ""}
             THEN [w2 EXCEPT !.subscribeTimers = @ + 1,
                             !.announcing =
                                Append(@, [socket |-> s, referenced |-> w2.svc.ws = s,
                                           gone |-> FALSE])]
             ELSE w2

\* ws.onopen of socket s.  Line 41 reads this.ws.readyState: with this.ws null
\* (after disconnect()) the handler ends there with a TypeError.
onopen(w, s) ==
  LET w1 == [w EXCEPT !.sockets[s].readyState = "OPEN"]
  IN IF w1.svc.ws = NullSocket THEN raise(w1)
     ELSE LET w2 == [w1 EXCEPT !.svc.reconnectAttempts = 0]
          IN IF w2.svc.currentPath # null
             THEN [w2 EXCEPT !.subscribeTimers = @ + 1,
                             !.announcing =
                                Append(@, [socket |-> s, referenced |-> w2.svc.ws = s,
                                           gone |-> FALSE])]
             ELSE w2

\* ws.onclose of socket s
onclose(w, s) ==
  attemptReconnect(gone([w EXCEPT !.sockets[s].readyState = "CLOSED"], s))

\* mutant: the callback announces the root path, not this.currentPath
subscribeTimeout_rootPath(w) ==
  LET w1 == [w EXCEPT !.subscribeTimers = @ - 1,
                      !.announcing = Tail(@),
                      !.reconnectTimers =
                         [i \in DOMAIN @ |->
                            [@[i] EXCEPT !.after = IF @ > 0 THEN @ - 1 ELSE 0]]]
  IN IF isOpen(w1)
     THEN send(w1, w1.svc.ws, [type |-> "subscribe", path |-> ""], "onopen")
     ELSE w1

\* the setTimeout(..., 10) callback of ws.onopen
subscribeTimeout(w) ==
  LET w1 == [w EXCEPT !.subscribeTimers = @ - 1,
                      !.announcing = Tail(@),
                      !.reconnectTimers =
                         [i \in DOMAIN @ |->
                            [@[i] EXCEPT !.after = IF @ > 0 THEN @ - 1 ELSE 0]]]
  IN IF isOpen(w1)
     THEN send(w1, w1.svc.ws, [type |-> "subscribe", path |-> w1.svc.currentPath], "onopen")
     ELSE w1

RemoveAt(seq, i) == SubSeq(seq, 1, i - 1) \o SubSeq(seq, i + 1, Len(seq))

\* the setTimeout callback of attemptReconnect, for the i-th pending timer
reconnectTimeout(w, i) ==
  LET w1 == [w EXCEPT !.reconnectTimers = RemoveAt(@, i)]
  IN IF w1.svc.userId # null THEN connect(w1, w1.svc.userId, "reconnect") ELSE w1

(***************************************************************************)
(* websocket.js: the event registry (on / off) and ws.onmessage.           *)
(***************************************************************************)
\* obj[key] of an object literal: its own property, a property inherited from
\* Object.prototype (a function or an object, never an array), or undefined
lookup(obj, key) ==
  IF key \in DOMAIN obj THEN [kind |-> "own", value |-> obj[key]]
  ELSE IF key \in ObjectPrototypeKeys THEN [kind |-> "inherited"]
  ELSE [kind |-> "undefined"]

registrations(w) ==
  LET total(k) == Len(w.svc.eventHandlers[k])
  IN total("ADDED") + total("DELETED") + total("RENAMED")

\* on(eventType, handler): an inherited property is truthy and has no push
on(w, eventType, handler) ==
  LET handlers == lookup(w.svc.eventHandlers, eventType)
  IN IF handlers.kind = "own"
     THEN [w EXCEPT !.svc.eventHandlers[eventType] = Append(@, handler)]
     ELSE IF handlers.kind = "inherited" THEN raise(w)
     ELSE w

\* the list without its first occurrence of handler
RemoveFirst(list, handler) ==
  IF \E i \in DOMAIN list : list[i] = handler
  THEN LET first == CHOOSE i \in DOMAIN list :
                      /\ list[i] = handler
                      /\ \A j \in 1..(i - 1) : list[j] # handler
       IN SubSeq(list, 1, first - 1) \o SubSeq(list, first + 1, Len(list))
  ELSE list

\* off(eventType, handler): filter(h => h !== handler)
off(w, eventType, handler) ==
  LET handlers == lookup(w.svc.eventHandlers, eventType)
      differs(h) == h # handler
  IN IF handlers.kind = "own"
     THEN [w EXCEPT !.svc.eventHandlers[eventType] = SelectSeq(@, differs)]
     ELSE IF handlers.kind = "inherited" THEN raise(w)
     ELSE w

\* handlers.forEach(handler => handler(message)), where the handlers in `failing`
\* throw: the first exception ends the loop
forEach(w, s, frame, handlers, message, failing) ==
  LET bad == {i \in DOMAIN handlers : handlers[i] \in failing}
      last == IF bad = {} THEN Len(handlers)
              ELSE CHOOSE i \in bad : \A j \in bad : i <= j
      w1 == [w EXCEPT !.delivery.registered = handlers,
                      !.delivery.invoked =
                         [i \in 1..last |-> [handler |-> handlers[i], message |-> message]]]
  IN IF bad = {} THEN w1 ELSE raise(w1)

\* mutant: ws.onmessage without its try/catch
onmessage_noCatch(w, s, frame, failing) ==
  LET w1 == [w EXCEPT !.delivery =
                [socket |-> s, frame |-> frame, failing |-> failing,
                 registered |-> <<>>, invoked |-> <<>>]]
  IN IF ~frame.json THEN raise(w1)
     ELSE LET message == frame.value
          IN IF "type" \notin DOMAIN message THEN raise(w1)
             ELSE LET handlers == lookup(w1.svc.eventHandlers, message.type)
                  IN IF handlers.kind = "own"
                     THEN forEach(w1, s, frame, handlers.value, message, failing)
                     ELSE IF handlers.kind = "inherited" THEN raise(w1)
                     ELSE w1

\* ws.onmessage of socket s for the frame event.data: JSON.parse, the reads of
\* message.type and the whole forEach are inside one try/catch
onmessage(w, s, frame, failing) ==
  LET w1 == [w EXCEPT !.delivery =
                [socket |-> s, frame |-> frame, failing |-> failing,
                 registered |-> <<>>, invoked |-> <<>>]]
  IN IF ~frame.json THEN catch(raise(w1))
     ELSE LET message == frame.value
          IN IF "type" \notin DOMAIN message THEN catch(raise(w1))
             ELSE LET handlers == lookup(w1.svc.eventHandlers, message.type)
                  IN IF handlers.kind = "own"
                     THEN catch(forEach(w1, s, frame, handlers.value, message, failing))
                     ELSE IF handlers.kind = "inherited" THEN catch(raise(w1))
                     ELSE w1

(***************************************************************************)
(* The server, as far as the client can tell: the folder store behind the  *)
(* listing endpoint, and the notifications it emits for the path a         *)
(* connection subscribed to.                                               *)
(***************************************************************************)
FolderIds == {ROOT_FOLDER_ID, "1"}

\* the root holds the folder a (item 1), which is empty
InitServer ==
  [items |-> [f \in FolderIds |->
                IF f = ROOT_FOLDER_ID
                THEN <<[ItemId |-> "1", Name |-> "a", Type |-> TypeOf("1")]>>
                ELSE <<>>],
   \* listing responses in flight: [load, contents]
   responses |-> {},
   \* notifications in flight, in send order: [socket, message]
   inbox |-> <<>>,
   \* the last exchange with the client that completed: "subscribe" (a subscribe
   \* message received), "listing" (a listing response applied) or "none"
   lastExchange |-> "none",
   \* changes made to the store so far
   mutations |-> 0]

\* what the server holds after a step of the service that leaves the world c: a
\* subscribe message sent on a connection has been received, and notifications
\* in flight on a connection that is no longer OPEN are lost
hears(c) ==
  LET sentMore == \E s \in SocketIds : Len(c.sockets[s].sent) > Len(sockets[s].sent)
      alive(e) == c.sockets[e.socket].readyState = "OPEN"
  IN [server EXCEPT !.lastExchange = IF sentMore THEN "subscribe" ELSE @,
                    !.inbox = SelectSeq(@, alive)]

\* the service and the browser after a step that leaves the world c
serviceBecomes(c) ==
  /\ wsService' = c.svc
  /\ sockets' = c.sockets
  /\ reconnectTimers' = c.reconnectTimers
  /\ subscribeTimers' = c.subscribeTimers
  /\ announcing' = c.announcing
  /\ uncaught' = c.raised
  /\ delivery' = c.delivery
  /\ UNCHANGED constructorThrows

\* the step's result becomes the new state
Becomes(w) ==
  LET c == collect(w)
  IN /\ serviceBecomes(c)
     /\ server' = hears(c)
     /\ UNCHANGED appVars

\* connect creates a WebSocket unless it returns early or the constructor throws
canConnect(w) == isOpen(w) \/ w.throws \/ FreeSockets(w) # {}

(***************************************************************************)
(* The caller.                                                             *)
(***************************************************************************)
Connect ==
  /\ calls < MaxCalls
  /\ canConnect(World)
  /\ Becomes(connect(World, USER_ID, "connect"))
  /\ calls' = calls + 1

SubscribePath(path) ==
  /\ calls < MaxCalls
  /\ Becomes(subscribePath(World, path))
  /\ calls' = calls + 1

Disconnect ==
  /\ calls < MaxCalls
  /\ Becomes(disconnect(World))
  /\ calls' = calls + 1

(***************************************************************************)
(* The transport and the timers.                                           *)
(***************************************************************************)
\* the connection is established: the open event
SocketOpened ==
  \E s \in SocketIds :
    /\ sockets[s].readyState = "CONNECTING"
    /\ Becomes(onopen(World, s))
    /\ UNCHANGED calls

\* the connection could not be established: error, then the close event
ConnectFailed ==
  \E s \in SocketIds :
    /\ sockets[s].readyState = "CONNECTING"
    /\ Becomes(onclose(World, s))
    /\ UNCHANGED calls

\* an established connection is lost: the close event
ConnectionLost ==
  \E s \in SocketIds :
    /\ sockets[s].readyState = "OPEN"
    /\ Becomes(onclose(World, s))
    /\ UNCHANGED calls

\* the close event that follows ws.close()
CloseCompleted ==
  \E s \in SocketIds :
    /\ sockets[s].readyState = "CLOSING"
    /\ Becomes(onclose(World, s))
    /\ UNCHANGED calls

SubscribeTimeout ==
  /\ subscribeTimers > 0
  /\ Becomes(subscribeTimeout(World))
  /\ UNCHANGED calls

ReconnectTimeout ==
  \E i \in DOMAIN reconnectTimers :
    /\ reconnectTimers[i].after = 0
    /\ canConnect(World)
    /\ Becomes(reconnectTimeout(World, i))
    /\ UNCHANGED calls

(***************************************************************************)
(* The registry's callers and the server's frames.                         *)
(***************************************************************************)
On(eventType, handler) ==
  /\ registrations(World) < MaxRegistrations
  /\ Becomes(on(World, eventType, handler))
  /\ UNCHANGED calls

Off(eventType, handler) ==
  /\ Becomes(off(World, eventType, handler))
  /\ UNCHANGED calls

\* a frame arrives on an OPEN WebSocket; some of the handlers registered for its
\* type throw on it
OnMessage ==
  \E s \in SocketIds, frame \in Frames, failing \in SUBSET Handlers :
    /\ sockets[s].readyState = "OPEN"
    /\ \A h \in failing :
          /\ frame.json
          /\ "type" \in DOMAIN frame.value
          /\ frame.value.type \in EventTypes
          /\ h \in Range(wsService.eventHandlers[frame.value.type])
    /\ Becomes(onmessage(World, s, frame, failing))
    /\ UNCHANGED calls

(***************************************************************************)
(* A transport whose send raises.                                          *)
(***************************************************************************)
SendThrows == [World EXCEPT !.sendThrows = TRUE]

\* subscribePath(path) on an OPEN connection whose send raises
SubscribePathSendFails(path) ==
  /\ calls < MaxCalls
  /\ isOpen(World)
  /\ Becomes(subscribePath(SendThrows, path))
  /\ calls' = calls + 1

\* the 10 ms callback of ws.onopen on an OPEN connection whose send raises
SubscribeTimeoutSendFails ==
  /\ subscribeTimers > 0
  /\ isOpen(World)
  /\ Becomes(subscribeTimeout(SendThrows))
  /\ UNCHANGED calls

NextManager ==
  \/ Connect
  \/ \E path \in Paths : SubscribePath(path)
  \/ Disconnect
  \/ SocketOpened
  \/ ConnectFailed
  \/ ConnectionLost
  \/ CloseCompleted
  \/ SubscribeTimeout
  \/ ReconnectTimeout

\* the service with its registry, on a transport that delivers frames
NextDispatcher ==
  \/ Connect
  \/ SocketOpened
  \/ ConnectionLost
  \/ ReconnectTimeout
  \/ \E eventType \in Kinds, handler \in Handlers : On(eventType, handler)
  \/ \E eventType \in Kinds, handler \in Handlers : Off(eventType, handler)
  \/ OnMessage

\* the service on a transport whose send may raise
NextSendFailure ==
  \/ Connect
  \/ \E path \in Paths : SubscribePath(path)
  \/ Disconnect
  \/ SocketOpened
  \/ ConnectFailed
  \/ ConnectionLost
  \/ CloseCompleted
  \/ SubscribeTimeout
  \/ ReconnectTimeout
  \/ \E path \in Paths : SubscribePathSendFails(path)
  \/ SubscribeTimeoutSendFails

(***************************************************************************)
(* App.js: navigation whose click lands before the setLoading(true) of the *)
(* load effect is rendered (the table and the navigation bar are still on  *)
(* screen; the effect of the previous click has already run).              *)
(***************************************************************************)
\* the effect has run: loadInitialFolder() called setLoading(true), which is not
\* rendered yet, and fetchFolderContents
startLoadUnrendered(id, stack, name) ==
  /\ pendingSetLoading' = TRUE
  /\ loads' = loads \cup {[folderId |-> orRoot(id), navigationStack |-> stack,
                           currentFolderName |-> name]}
  /\ UNCHANGED <<loading, error>>

ClickFolder ==
  \E item \in Range(fileList) :
    /\ Visible
    /\ item.Type = "FOLDER"
    /\ Len(navigationStack) < MaxDepth
    /\ LET stack == Append(navigationStack,
                           [id |-> orRoot(currentFolderId), name |-> currentFolderName])
       IN /\ navigationStack' = stack
          /\ currentFolderId' = item.ItemId
          /\ currentFolderName' = item.Name
          /\ startLoadUnrendered(item.ItemId, stack, item.Name)
    /\ lastEvent' = NoEvent
    /\ UNCHANGED <<wsVars, server>>
    /\ UNCHANGED <<fileList, currentFolderPath, refreshes>>

ClickBack ==
  /\ Visible
  /\ Len(navigationStack) > 0
  /\ LET previousFolder == navigationStack[Len(navigationStack)]
         newStack == SubSeq(navigationStack, 1, Len(navigationStack) - 1)
     IN /\ navigationStack' = newStack
        /\ currentFolderId' = previousFolder.id
        /\ currentFolderName' = previousFolder.name
        /\ startLoadUnrendered(previousFolder.id, newStack, previousFolder.name)
  /\ lastEvent' = NoEvent
  /\ UNCHANGED <<wsVars, server>>
  /\ UNCHANGED <<fileList, currentFolderPath, refreshes>>

ClickHome ==
  /\ Visible
  /\ Len(navigationStack) > 0
  /\ navigationStack' = <<>>
  /\ currentFolderId' = null
  /\ currentFolderName' = "ROOT"
  /\ startLoadUnrendered(null, <<>>, "ROOT")
  /\ lastEvent' = NoEvent
  /\ UNCHANGED <<wsVars, server>>
  /\ UNCHANGED <<fileList, currentFolderPath, refreshes>>

\* the queued setLoading(true) is rendered: "Loading..." replaces the table
RenderLoading ==
  /\ pendingSetLoading
  /\ loading' = TRUE
  /\ pendingSetLoading' = FALSE
  /\ lastEvent' = NoEvent
  /\ UNCHANGED <<wsVars, server>>
  /\ UNCHANGED <<fileList, currentFolderId, currentFolderName, currentFolderPath,
                 navigationStack, error, loads, refreshes>>

NextNavigation ==
  \/ ClickFolder
  \/ ClickBack
  \/ ClickHome
  \/ RenderLoading
  \/ LoadResolved
  \/ LoadRejected

(***************************************************************************)
(* The App and the service together, against the server.                   *)
(***************************************************************************)
\* the callbacks the App registers
AppHandlers ==
  [ADDED |-> "handleAddedEvent", DELETED |-> "handleDeletedEvent",
   RENAMED |-> "handleRenamedEvent"]

\* the effect that connects and registers the handlers, and its cleanup
registerEffect(w) ==
  on(on(on(connect(w, USER_ID, "connect"),
           "ADDED", AppHandlers.ADDED),
        "DELETED", AppHandlers.DELETED),
     "RENAMED", AppHandlers.RENAMED)

registerCleanup(w) ==
  off(off(off(w, "ADDED", AppHandlers.ADDED),
          "DELETED", AppHandlers.DELETED),
      "RENAMED", AppHandlers.RENAMED)

\* the effect that subscribes to currentFolderPath
subscribeEffect(w, path) == subscribePath(w, path)

\* a new currentFolderPath gives a new handleAddedEvent: the first effect is
\* cleaned up and runs again, then the second effect runs
pathEffects(w, path) == subscribeEffect(registerEffect(registerCleanup(w)), path)

Mounted == wsService.userId # null

\* the two WebSocket effects of the mount (the load effect is in InitApp)
Mount ==
  /\ ~Mounted
  /\ Becomes(subscribeEffect(registerEffect(World), currentFolderPath))
  /\ UNCHANGED calls

\* the calls a dispatch made, applied to the list in order
RECURSIVE invoke(_, _)
invoke(list, invoked) ==
  IF invoked = <<>> THEN list
  ELSE LET call == Head(invoked)
           next == IF call.handler = AppHandlers.ADDED
                   THEN handleAddedEvent(list, call.message)
                   ELSE IF call.handler = AppHandlers.DELETED
                   THEN handleDeletedEvent(list, call.message)
                   ELSE IF call.handler = AppHandlers.RENAMED
                   THEN handleRenamedEvent(list, call.message)
                   ELSE list
       IN invoke(next, Tail(invoked))

\* the path of a folder of the store
pathOf(folderId) ==
  IF folderId = ROOT_FOLDER_ID THEN ""
  ELSE "/" \o (CHOOSE n \in Names :
                 \E item \in Range(server.items[ROOT_FOLDER_ID]) :
                   item.ItemId = folderId /\ item.Name = n)

\* the path connection s is subscribed to: that of the last subscribe message
subscription(s) ==
  IF sockets[s].readyState = "OPEN" /\ sockets[s].sent # <<>>
  THEN sockets[s].sent[Len(sockets[s].sent)].message.path
  ELSE null

\* the members of a set of connections, in ascending order
ordered(S) ==
  [k \in 1..Cardinality(S) |->
     CHOOSE s \in S : Cardinality({u \in S : u < s}) = k - 1]

\* GET /folders/{id}: the items currently in the folder
ServerListing ==
  /\ Mounted
  /\ \E l \in loads :
       /\ \A r \in server.responses : r.load # l
       /\ server' = [server EXCEPT
                       !.responses = @ \cup {[load |-> l,
                                              contents |-> server.items[l.folderId]]}]
  /\ UNCHANGED <<appVars, wsVars>>

\* a change of the store, made while the client is connected: the folder's new
\* listing, and a notification to every connection subscribed to the folder's path
mutate(folderId, listing, message) ==
  /\ Mounted
  /\ \E s \in SocketIds : sockets[s].readyState = "OPEN"
  /\ server.mutations < MaxMutations
  /\ LET subscribers == ordered({s \in SocketIds : subscription(s) = message.path})
     IN server' = [server EXCEPT
                     !.items[folderId] = listing,
                     !.inbox = @ \o [k \in DOMAIN subscribers |->
                                       [socket |-> subscribers[k], message |-> message]],
                     !.mutations = @ + 1]
  /\ UNCHANGED <<appVars, wsVars>>

\* some client creates a file
ServerAdded ==
  \E folderId \in FolderIds, item \in Items :
    /\ item.Type = "FILE"
    /\ \A f \in FolderIds : \A x \in Range(server.items[f]) : x.ItemId # item.ItemId
    /\ mutate(folderId, Append(server.items[folderId], item),
              [type |-> "ADDED", path |-> pathOf(folderId), data |-> item])

\* some client deletes a file
ServerDeleted ==
  \E folderId \in FolderIds :
    \E i \in DOMAIN server.items[folderId] :
      /\ server.items[folderId][i].Type = "FILE"
      /\ mutate(folderId, RemoveAt(server.items[folderId], i),
                [type |-> "DELETED", path |-> pathOf(folderId),
                 data |-> [ItemId |-> server.items[folderId][i].ItemId]])

\* some client renames a file
ServerRenamed ==
  \E folderId \in FolderIds, n \in Names :
    \E i \in DOMAIN server.items[folderId] :
      /\ server.items[folderId][i].Type = "FILE"
      /\ server.items[folderId][i].Name # n
      /\ mutate(folderId, [server.items[folderId] EXCEPT ![i].Name = n],
                [type |-> "RENAMED", path |-> pathOf(folderId),
                 data |-> [item |-> [server.items[folderId][i] EXCEPT !.Name = n]]])

\* the oldest notification in flight arrives: ws.onmessage dispatches it to the
\* handlers registered for its type
Deliver ==
  /\ server.inbox # <<>>
  /\ LET e == Head(server.inbox)
         c == collect(onmessage(World, e.socket, [json |-> TRUE, value |-> e.message], {}))
     IN /\ sockets[e.socket].readyState = "OPEN"
        /\ serviceBecomes(c)
        /\ server' = [hears(c) EXCEPT !.inbox = Tail(@)]
        /\ fileList' = invoke(fileList, c.delivery.invoked)
        /\ lastEvent' = [type |-> e.message.type, message |-> e.message,
                         prevList |-> fileList]
  /\ UNCHANGED <<currentFolderId, currentFolderName, currentFolderPath,
                 navigationStack, loading, error, pendingSetLoading, loads, refreshes>>
  /\ UNCHANGED calls

\* loadInitialFolder: the listing response arrived; a new currentFolderPath
\* re-runs the two WebSocket effects, after the listing is applied
FetchResolved ==
  \E r \in server.responses :
    LET l == r.load
        path == folderPath(l.navigationStack, l.currentFolderName)
        c == collect(IF path # currentFolderPath THEN pathEffects(World, path) ELSE World)
    IN /\ path # currentFolderPath => (canConnect(World) /\ calls < MaxPathChanges)
       /\ fileList' = r.contents
       /\ currentFolderPath' = path
       /\ loading' = FALSE
       /\ pendingSetLoading' = FALSE
       /\ loads' = loads \ {l}
       /\ lastEvent' = [type |-> "LOADED", load |-> l]
       /\ UNCHANGED <<currentFolderId, currentFolderName, navigationStack, error,
                      refreshes>>
       /\ serviceBecomes(c)
       /\ server' = [hears(c) EXCEPT
                       !.responses = @ \ {r},
                       !.lastExchange = IF @ = server.lastExchange THEN "listing" ELSE @]
       /\ calls' = IF path # currentFolderPath THEN calls + 1 ELSE calls

\* the connection, once made, stays OPEN; the store changes
NextSync ==
  \/ Mount
  \/ SocketOpened
  \/ SubscribeTimeout
  \/ ServerListing
  \/ FetchResolved
  \/ Deliver
  \/ ServerAdded
  \/ ServerDeleted
  \/ ServerRenamed
  \/ handleFolderClick
  \/ handleGoBack

\* the connection is lost and made again; the store does not change
NextResubscribe ==
  \/ Mount
  \/ SocketOpened
  \/ SubscribeTimeout
  \/ ConnectionLost
  \/ ReconnectTimeout
  \/ ServerListing
  \/ FetchResolved
  \/ handleFolderClick
  \/ handleGoBack
  \/ handleGoToRoot

(***************************************************************************)
(* The specifications.                                                     *)
(***************************************************************************)
Init == InitApp /\ InitManager /\ server = InitServer

SpecReconciler == Init /\ [][NextReconciler]_vars

SpecManager == Init /\ [][NextManager]_vars

\* the manager where every timer that is set fires, every connection attempt ends
\* (in an open or a close event) and every close handshake completes
SpecRecovery ==
  /\ Init
  /\ [][NextManager]_vars
  /\ WF_vars(ReconnectTimeout)
  /\ WF_vars(SubscribeTimeout)
  /\ WF_vars(SocketOpened \/ ConnectFailed)
  /\ WF_vars(CloseCompleted)

SpecDispatcher == Init /\ [][NextDispatcher]_vars

SpecSendFailure == Init /\ [][NextSendFailure]_vars

SpecNavigation == Init /\ [][NextNavigation]_vars

SpecSync == Init /\ [][NextSync]_vars

SpecResubscribe == Init /\ [][NextResubscribe]_vars

(***************************************************************************)
(* Properties of the Listing Reconciler (checked under SpecReconciler).    *)
(***************************************************************************)
IdsOf(s) == {s[i].ItemId : i \in DOMAIN s}
CountId(s, id) == Cardinality({i \in DOMAIN s : s[i].ItemId = id})

\* C1 (path isolation): a notification whose path differs from the active path
\* (currentFolderPath) leaves fileList as it was before the dispatch.
C1_PathIsolation ==
  (lastEvent.type \in {"ADDED", "DELETED", "RENAMED"}
     /\ lastEvent.message.path # currentFolderPath)
  => fileList = lastEvent.prevList

\* C2 (idempotent ADDED): once an ADDED notification for X has been applied,
\* applying the same notification again yields the same collection, and that
\* collection holds exactly one item with X's id.
C2_IdempotentAdded ==
  lastEvent.type = "ADDED" =>
    LET once == fileList
        twice == handleAddedEvent(once, lastEvent.message)
    IN /\ twice = once
       /\ CountId(twice, lastEvent.message.data.ItemId) = 1

\* C2 witness: the same ADDED notification was delivered a second time (its item is
\* already in the collection) and the collection came out unchanged.
C2_Witness ==
  /\ lastEvent.type = "ADDED"
  /\ lastEvent.message.data \in Range(lastEvent.prevList)
  /\ fileList = lastEvent.prevList
  /\ CountId(fileList, lastEvent.message.data.ItemId) = 1

\* C3 (no-op on unknown id): DELETED{id=Y} or RENAMED{id=Y} dispatched to a
\* collection with no item of id Y leaves it unchanged (items, order, length).
C3_NoOpUnknownId ==
  /\ (lastEvent.type = "DELETED"
        /\ lastEvent.message.data.ItemId \notin IdsOf(lastEvent.prevList))
     => fileList = lastEvent.prevList
  /\ (lastEvent.type = "RENAMED"
        /\ lastEvent.message.data.item.ItemId \notin IdsOf(lastEvent.prevList))
     => fileList = lastEvent.prevList

\* C3 witness: DELETED for an id that is absent from a non-empty collection.
C3_Witness ==
  /\ lastEvent.type = "DELETED"
  /\ lastEvent.prevList # <<>>
  /\ lastEvent.message.data.ItemId \notin IdsOf(lastEvent.prevList)
  /\ fileList = lastEvent.prevList

\* C4 (unique ids): whatever the interleaving of fetch completions (each listing
\* with pairwise distinct ids) and notifications, fileList never holds two items
\* with the same id.
C4_UniqueIds == DistinctIds(fileList)

\* C4 witness: an ADDED notification arrived for an item the (re-)fetched listing
\* already held under another name, and the collection still has one item per id.
C4_Witness ==
  /\ lastEvent.type = "ADDED"
  /\ Len(lastEvent.prevList) = 2
  /\ lastEvent.message.data.ItemId \in IdsOf(lastEvent.prevList)
  /\ lastEvent.message.data \notin Range(lastEvent.prevList)
  /\ DistinctIds(fileList)

(***************************************************************************)
(* Properties of the Connection Manager (checked under SpecManager).       *)
(***************************************************************************)
current == wsService.ws
subscribeMessage(path) == [type |-> "subscribe", path |-> path]

\* the service's connection is OPEN, an intent is recorded and no announcement
\* of an open handler is still pending
Settled ==
  /\ current # NullSocket
  /\ sockets[current].readyState = "OPEN"
  /\ wsService.currentPath # null
  /\ subscribeTimers = 0

\* subscribePath has sent nothing on the current connection
NoCallSinceOpen ==
  \A i \in DOMAIN sockets[current].sent : sockets[current].sent[i].by # "subscribePath"

\* no connection, no attempt in progress, no retry scheduled, the budget used up
Failed ==
  /\ wsService.reconnectAttempts = maxReconnectAttempts
  /\ reconnectTimers = <<>>
  /\ \A s \in SocketIds : sockets[s].readyState \in {"NONE", "CLOSED"}

\* C5 (subscription survives reconnect): on a connection that the reconnection
\* algorithm reopened, with no subscribePath call since, exactly one subscribe
\* announcement has been sent once the open handler's announcement is done, and
\* it carries the intent.
C5_ExactlyOneAnnouncement ==
  (Settled /\ sockets[current].by = "reconnect" /\ NoCallSinceOpen)
  => /\ Len(sockets[current].sent) = 1
     /\ sockets[current].sent[1].message = subscribeMessage(wsService.currentPath)

C7_SetSubscription ==
  [][\A path \in Paths :
       SubscribePath(path) =>
         /\ wsService'.currentPath = path
         /\ IF isOpen(World)
            THEN /\ sockets'[current].sent =
                      Append(sockets[current].sent,
                             [message |-> subscribeMessage(path), by |-> "subscribePath"])
                 /\ \A s \in SocketIds \ {current} : sockets'[s].sent = sockets[s].sent
            ELSE \A s \in SocketIds : sockets'[s].sent = sockets[s].sent]_vars

\* C7 witness: subscribePath was called on an OPEN connection and its message is
\* the last one sent.
C7_Witness ==
  /\ Settled
  /\ Len(sockets[current].sent) > 0
  /\ sockets[current].sent[Len(sockets[current].sent)] =
       [message |-> subscribeMessage(wsService.currentPath), by |-> "subscribePath"]

\* C8 (bounded retries): once maxReconnectAttempts (5) automatic attempts are used
\* no further one is scheduled, and the FAILED state is left only by an explicit
\* connect() call.
C8_BoundedRetries ==
  [][/\ wsService.reconnectAttempts = maxReconnectAttempts
          => Len(reconnectTimers') <= Len(reconnectTimers)
     /\ (Failed /\ ~Failed') => Connect]_vars

\* C8 witness: after a single connect() call, five automatic attempts have failed.
C8_Witness ==
  /\ Failed
  /\ ~constructorThrows
  /\ calls = 1
  /\ current # NullSocket
  /\ sockets[current].by = "reconnect"

\* C9 (recovery from FAILED): an explicit connect() call made in the FAILED state
\* (on a page whose URL the WebSocket constructor accepts) resets the attempt
\* counter, so that the new attempt has the full budget of retries behind it.
C9_OpenResetsCounter ==
  [][(Failed /\ ~constructorThrows /\ Connect) => wsService'.reconnectAttempts = 0]_vars

\* C10 (close() suppresses reconnection): the close event of a connection that
\* disconnect() released schedules no reconnect attempt.
C10_CloseSuppressesReconnect ==
  [][\A s \in SocketIds :
       (sockets[s].readyState = "CLOSING" /\ sockets'[s].readyState # "CLOSING")
       => reconnectTimers' = reconnectTimers]_vars

\* C11 (open() while OPEN is a no-op): a connect() call made while the service's
\* connection is OPEN creates no WebSocket and leaves the connection, every other
\* WebSocket, the user id, the intent, the attempt counter, the registry and the
\* timers as they were.
C11_OpenWhileOpenNoOp ==
  [][(isOpen(World) /\ Connect)
       => /\ wsService' = wsService
          /\ sockets' = sockets
          /\ reconnectTimers' = reconnectTimers
          /\ subscribeTimers' = subscribeTimers
          /\ ~uncaught']_vars

\* C11 witness: connect() was called twice and there is still the one WebSocket
\* the first call created, OPEN.
C11_Witness ==
  /\ calls = 2
  /\ current = 1
  /\ sockets[1].readyState = "OPEN"
  /\ sockets[1].by = "connect"
  /\ \A s \in SocketIds \ {1} : sockets[s] = NoSocket
  /\ wsService.currentPath = null
  /\ wsService.userId = USER_ID
  /\ wsService.reconnectAttempts = 0
  /\ reconnectTimers = <<>>

\* the WebSockets that are CONNECTING or OPEN
Live == {s \in SocketIds : sockets[s].readyState \in {"CONNECTING", "OPEN"}}

\* C12 (single connection): at most one WebSocket of the service is CONNECTING
\* or OPEN at any time.
C12_SingleConnection == Cardinality(Live) <= 1

(***************************************************************************)
(* Properties of the registry and the dispatcher (checked under            *)
(* SpecDispatcher).                                                        *)
(***************************************************************************)
\* the last step received a frame
Received == delivery.socket # NullSocket

\* a frame that does not parse to a notification of a known type
Dropped(frame) ==
  \/ ~frame.json
  \/ "type" \notin DOMAIN frame.value
  \/ frame.value.type \notin EventTypes

\* C13 (observer isolation): when a notification is dispatched and one of the
\* handlers registered for its type throws, every handler registered after it is
\* still invoked with the notification.
C13_ObserverIsolation ==
  Received =>
    \A i \in DOMAIN delivery.registered :
      (\E j \in 1..(i - 1) : delivery.registered[j] \in delivery.failing)
      => /\ i \in DOMAIN delivery.invoked
         /\ delivery.invoked[i] =
              [handler |-> delivery.registered[i], message |-> delivery.frame.value]

\* C14 (dispatch completeness and order): for a parsed frame of type K in
\* {ADDED, DELETED, RENAMED}, the handlers invoked are exactly the registrations
\* for K, once each, in registration order, each with the full parsed message.
C14_DispatchInOrder ==
  (Received /\ ~Dropped(delivery.frame)) =>
    LET handlers == wsService.eventHandlers[delivery.frame.value.type]
    IN delivery.invoked =
         [i \in DOMAIN handlers |->
            [handler |-> handlers[i], message |-> delivery.frame.value]]

\* C15 (protocol errors are dropped): a frame that fails to parse, or parses to
\* something without a known type, invokes no handler, lets no exception out, and
\* leaves the service (connection, user id, intent, attempt counter, registry),
\* every WebSocket (the receiving one stays OPEN) and the timers unchanged.
C15_ProtocolErrorsDropped ==
  [][(delivery'.socket # NullSocket /\ Dropped(delivery'.frame))
       => /\ delivery'.invoked = <<>>
          /\ ~uncaught'
          /\ wsService' = wsService
          /\ sockets' = sockets
          /\ sockets'[delivery'.socket].readyState = "OPEN"
          /\ reconnectTimers' = reconnectTimers
          /\ subscribeTimers' = subscribeTimers]_vars

\* C15 witness: text that is not JSON arrived on an OPEN WebSocket while handlers
\* were registered; none was invoked and the WebSocket is still OPEN.
C15_Witness ==
  /\ Received
  /\ ~delivery.frame.json
  /\ delivery.invoked = <<>>
  /\ ~uncaught
  /\ sockets[delivery.socket].readyState = "OPEN"
  /\ registrations(World) > 0

\* C16 (independent registrations): off(K, h) removes only the first registration
\* of h for K, so that one of two registrations of h survives one off.
C16_OffRemovesFirstMatch ==
  [][\A eventType \in EventTypes, handler \in Handlers :
       Off(eventType, handler)
       => wsService'.eventHandlers[eventType] =
            RemoveFirst(wsService.eventHandlers[eventType], handler)]_vars

\* C17 (unknown kinds are rejected silently): on and off with a type outside
\* {ADDED, DELETED, RENAMED} raise nothing and leave the registry, whose keys are
\* exactly these three, unchanged.
C17_UnknownKindsSilent ==
  [][\A eventType \in Kinds \ EventTypes, handler \in Handlers :
       (On(eventType, handler) \/ Off(eventType, handler))
       => /\ ~uncaught'
          /\ wsService'.eventHandlers = wsService.eventHandlers
          /\ DOMAIN wsService'.eventHandlers = EventTypes]_vars

(***************************************************************************)
(* Properties of the reconnection algorithm (checked under SpecManager).   *)
(***************************************************************************)
\* C18 (linear backoff): every automatic attempt that is scheduled takes the next
\* attempt number k (the counter, 0 after a successful open, plus one), k is in
\* 1..5, and its timer's delay is reconnectDelay * k.
C18_LinearBackoff ==
  [][wsService'.reconnectAttempts > wsService.reconnectAttempts
       => /\ wsService'.reconnectAttempts = wsService.reconnectAttempts + 1
          /\ wsService'.reconnectAttempts \in 1..maxReconnectAttempts
          /\ reconnectTimers' # <<>>
          /\ reconnectTimers'[Len(reconnectTimers')].delay =
               reconnectDelay * wsService'.reconnectAttempts]_vars

\* C18 witness: a connection made by the reconnection algorithm (so after at least
\* one attempt) opened, announced the intent and was lost: the attempt scheduled
\* for it is number 1 again, with delay 1000.
C18_Witness ==
  /\ current # NullSocket
  /\ sockets[current].by = "reconnect"
  /\ sockets[current].readyState = "CLOSED"
  /\ sockets[current].sent # <<>>
  /\ wsService.reconnectAttempts = 1
  /\ Len(reconnectTimers) = 1
  /\ reconnectTimers[1].delay = 1000

\* the service's connection is OPEN in the next state
isOpenNext == current' # NullSocket /\ sockets'[current'].readyState = "OPEN"

\* a WebSocket's close event happens in this step
Closes ==
  \E s \in SocketIds :
    /\ sockets[s].readyState \in {"CONNECTING", "OPEN", "CLOSING"}
    /\ sockets'[s].readyState \in {"CLOSED", "NONE"}

\* C19 (counter reset on open): every step in which the service's connection
\* becomes OPEN sets the attempt counter to 0; while it is OPEN the counter grows
\* only when a close event occurs; and the counter stays within 0..5.
C19_CounterResetOnOpen ==
  [][/\ (isOpenNext /\ ~(isOpen(World) /\ current' = current))
          => wsService'.reconnectAttempts = 0
     /\ (isOpen(World) /\ wsService'.reconnectAttempts > wsService.reconnectAttempts)
          => Closes
     /\ wsService'.reconnectAttempts \in 0..maxReconnectAttempts]_vars

\* C19 witness: after one connect() call, a connection made by the reconnection
\* algorithm (the counter was at least 1 when it was made) is OPEN and the
\* counter is 0.
C19_Witness ==
  /\ calls = 1
  /\ current # NullSocket
  /\ sockets[current].by = "reconnect"
  /\ sockets[current].readyState = "OPEN"
  /\ wsService.reconnectAttempts = 0
  /\ reconnectTimers = <<>>

(***************************************************************************)
(* Properties of a raising send (checked under SpecSendFailure).           *)
(***************************************************************************)
\* C20 (send failures are swallowed): when the send raises, in subscribePath on an
\* OPEN connection or in the open handler's automatic announcement, no exception
\* leaves the service and the intent stays recorded.
C20_SendFailuresSwallowed ==
  [][/\ \A path \in Paths :
          SubscribePathSendFails(path)
          => (~uncaught' /\ wsService'.currentPath = path)
     /\ SubscribeTimeoutSendFails
          => (~uncaught' /\ wsService'.currentPath = wsService.currentPath)]_vars

(***************************************************************************)
(* More properties of the Connection Manager (SpecManager, SpecRecovery).  *)
(***************************************************************************)
\* C21 (connect-time exceptions): when new WebSocket(...) raises inside connect(),
\* called by the caller or by a reconnect timer, nothing reaches the caller and
\* the effect is that of a close event: with fewer than 5 attempts used the
\* counter goes up by one and a timer with delay reconnectDelay * counter is set,
\* otherwise nothing is scheduled.
C21_ConstructorThrowsRetries ==
  [][(constructorThrows /\ (Connect \/ ReconnectTimeout))
       => /\ ~uncaught'
          /\ \A s \in SocketIds : sockets'[s] = NoSocket
          /\ IF wsService.reconnectAttempts < maxReconnectAttempts
             THEN /\ wsService'.reconnectAttempts = wsService.reconnectAttempts + 1
                  /\ reconnectTimers' # <<>>
                  /\ reconnectTimers'[Len(reconnectTimers')].delay =
                       reconnectDelay * (wsService.reconnectAttempts + 1)
                  /\ Len(reconnectTimers') =
                       Len(reconnectTimers) + (IF Connect THEN 1 ELSE 0)
             ELSE /\ wsService'.reconnectAttempts = wsService.reconnectAttempts
                  /\ Len(reconnectTimers') <= Len(reconnectTimers)]_vars

\* C21 witness: the constructor raises; one connect() call and one timer later
\* the second attempt is scheduled, 2000 ms ahead.
C21_Witness ==
  /\ constructorThrows
  /\ calls = 1
  /\ ~uncaught
  /\ wsService.reconnectAttempts = 2
  /\ Len(reconnectTimers) = 1
  /\ reconnectTimers[1].delay = 2000

\* the service's connection was lost or could not be made
Lost ==
  /\ current # NullSocket
  /\ sockets[current].readyState = "CLOSED"

\* every automatic attempt is used up and none is in progress
Exhausted ==
  /\ wsService.reconnectAttempts = maxReconnectAttempts
  /\ reconnectTimers = <<>>
  /\ \A s \in SocketIds : sockets[s].readyState # "CONNECTING"

\* C22 (automatic recovery): once the service's connection is lost, then with
\* timers that fire and connection attempts that end, and with no call from the
\* caller needed, the service's connection is OPEN again at some point, unless
\* the automatic attempts are used up with none of them having succeeded.
C22_AutomaticRecovery == Lost ~> (isOpen(World) \/ Exhausted)

\* C29 (superseded connections are inert): an open or close event of a WebSocket
\* that is not the service's current one (replaced by a later connect() or released
\* by disconnect()) changes neither the attempt counter nor the timers.
C29_SupersededInert ==
  [][\A s \in SocketIds :
       (/\ s # current
        /\ sockets[s].readyState \in {"CONNECTING", "OPEN", "CLOSING"}
        /\ sockets'[s].readyState # sockets[s].readyState)
       => /\ wsService'.reconnectAttempts = wsService.reconnectAttempts
          /\ reconnectTimers' = reconnectTimers
          /\ subscribeTimers' = subscribeTimers]_vars

\* C30 (server view matches intent): whenever the service's connection is OPEN
\* with an intent recorded and no announcement of an open handler pending, a
\* subscribe message has been sent on it and the last one carries the intent.
C30_LastAnnouncementIsIntent ==
  Settled
  => /\ sockets[current].sent # <<>>
     /\ sockets[current].sent[Len(sockets[current].sent)].message =
          subscribeMessage(wsService.currentPath)

\* C30 witness: subscribePath was called between the open event and the delayed
\* announcement; the announcement then carried the new path.
C30_Witness ==
  /\ Settled
  /\ Len(sockets[current].sent) = 2
  /\ sockets[current].sent[1] =
       [message |-> subscribeMessage("/docs"), by |-> "subscribePath"]
  /\ sockets[current].sent[2] =
       [message |-> subscribeMessage("/docs"), by |-> "onopen"]

(***************************************************************************)
(* More properties of the Listing Reconciler (SpecReconciler).             *)
(***************************************************************************)
\* the handler the App registered for a notification's type, applied to a list
applied(prevList, message) ==
  IF message.type = "ADDED" THEN handleAddedEvent(prevList, message)
  ELSE IF message.type = "DELETED" THEN handleDeletedEvent(prevList, message)
  ELSE handleRenamedEvent(prevList, message)

\* C23 (reference fold): every notification for the active path takes the
\* collection to what the reference step gives (ADDED appends the item at the end
\* iff its id is absent, DELETED removes the item with that id, RENAMED replaces
\* the item with that id), so a sequence of them gives the reference fold; and
\* from the empty collection ADDED{1,a}, RENAMED{1,b}, DELETED{1}, DELETED{1}
\* gives [a], [b], [], [].
C23_ReferenceFold ==
  LET without(list, id) ==
        LET kept == {i \in DOMAIN list : list[i].ItemId # id}
            \* the k-th kept position, in order
            nth(k) == CHOOSE i \in kept : Cardinality({j \in kept : j < i}) = k - 1
        IN [k \in 1..Cardinality(kept) |-> list[nth(k)]]
      reference(list, m) ==
        IF m.type = "ADDED"
        THEN IF m.data.ItemId \in IdsOf(list) THEN list ELSE list \o <<m.data>>
        ELSE IF m.type = "DELETED"
        THEN without(list, m.data.ItemId)
        ELSE [i \in DOMAIN list |->
                IF list[i].ItemId = m.data.item.ItemId THEN m.data.item ELSE list[i]]
      a == [ItemId |-> "1", Name |-> "a", Type |-> TypeOf("1")]
      b == [ItemId |-> "1", Name |-> "b", Type |-> TypeOf("1")]
      m1 == [type |-> "ADDED", path |-> "", data |-> a]
      m2 == [type |-> "RENAMED", path |-> "", data |-> [item |-> b]]
      m3 == [type |-> "DELETED", path |-> "", data |-> [ItemId |-> "1"]]
      l1 == applied(<<>>, m1)
      l2 == applied(l1, m2)
      l3 == applied(l2, m3)
      l4 == applied(l3, m3)
  IN /\ (lastEvent.type \in {"ADDED", "DELETED", "RENAMED"}
           /\ lastEvent.message.path = currentFolderPath)
        => fileList = reference(lastEvent.prevList, lastEvent.message)
     /\ <<l1, l2, l3, l4>> = << <<a>>, <<b>>, <<>>, <<>> >>

\* C23 witness: a DELETED notification for the active path took the first of two
\* items out of the collection.
C23_Witness ==
  /\ lastEvent.type = "DELETED"
  /\ lastEvent.message.path = currentFolderPath
  /\ Len(lastEvent.prevList) = 2
  /\ lastEvent.message.data.ItemId = lastEvent.prevList[1].ItemId
  /\ fileList = <<lastEvent.prevList[2]>>

\* C24 (RENAMED replaces in place): when an item with the notification's id is in
\* the collection, after RENAMED the collection has the same length, the position
\* of that item holds exactly the notification's item, and every other position
\* holds what it held before.
C24_RenamedInPlace ==
  (lastEvent.type = "RENAMED"
     /\ lastEvent.message.data.item.ItemId \in IdsOf(lastEvent.prevList))
  => /\ Len(fileList) = Len(lastEvent.prevList)
     /\ \A i \in DOMAIN lastEvent.prevList :
          IF lastEvent.prevList[i].ItemId = lastEvent.message.data.item.ItemId
          THEN fileList[i] = lastEvent.message.data.item
          ELSE fileList[i] = lastEvent.prevList[i]

\* C24 witness: the first of two items was renamed; it is still first, under its
\* new name, and the second item is untouched.
C24_Witness ==
  /\ lastEvent.type = "RENAMED"
  /\ Len(lastEvent.prevList) = 2
  /\ lastEvent.prevList[1].ItemId = lastEvent.message.data.item.ItemId
  /\ lastEvent.prevList[1].Name # lastEvent.message.data.item.Name
  /\ fileList = <<lastEvent.message.data.item, lastEvent.prevList[2]>>

\* C25 (rebinding clears and re-seeds): a navigation (folder click, Back, Home)
\* empties the collection and issues a listing fetch for the new folder, so no
\* item of the previous folder stays in the collection from that moment on.
C25_RebindingClears ==
  [][(handleFolderClick \/ handleGoBack \/ handleGoToRoot)
       => /\ fileList' = <<>>
          /\ \E l \in loads' \ loads : l.folderId = orRoot(currentFolderId')]_vars

(***************************************************************************)
(* Properties of navigation and of the App with the service and the server *)
(* (SpecNavigation, SpecSync).                                             *)
(***************************************************************************)
\* nothing is in flight or pending: no fetch, no mutation handler, no timer, no
\* connection being made or closed, no notification, no unrendered update
Quiescent ==
  /\ Mounted
  /\ loads = {}
  /\ refreshes = {}
  /\ ~pendingSetLoading
  /\ server.responses = {}
  /\ server.inbox = <<>>
  /\ reconnectTimers = <<>>
  /\ subscribeTimers = 0
  /\ \A s \in SocketIds : sockets[s].readyState \notin {"CONNECTING", "CLOSING"}

\* C26 (re-fetch after every subscription): once everything has settled, a
\* listing response has been applied after the last subscribe message was sent,
\* the re-announcement after a reconnect included.
C26_RefetchAfterSubscribe == Quiescent => server.lastExchange # "subscribe"

\* C27 (eventual consistency): the connection the App opened has stayed OPEN, the
\* store was changed only while it was OPEN, and everything has settled (every
\* notification delivered, every fetch answered): the collection holds exactly
\* the items the server holds for the current folder.
C27_EventuallyConsistent ==
  (/\ Quiescent
   /\ error = null
   /\ isOpen(World)
   /\ sockets[current].by = "connect"
   /\ \A s \in SocketIds \ {current} : sockets[s] = NoSocket
   /\ subscription(current) = currentFolderPath)
  => Range(fileList) = Range(server.items[orRoot(currentFolderId)])

\* C28 (stale fetch cannot win): once no listing fetch is in flight, the listing
\* applied last is the one fetched for the current folder and the active path is
\* the current folder's path.
C28_StaleFetchCannotWin ==
  (loads = {} /\ lastEvent.type = "LOADED")
  => /\ lastEvent.load.folderId = orRoot(currentFolderId)
     /\ currentFolderPath = folderPath(navigationStack, currentFolderName)

(***************************************************************************)
(* The sends of the service (checked under SpecManager).                   *)
(***************************************************************************)
\* the step sends a frame on WebSocket s
Sends(s) == Len(sockets'[s].sent) > Len(sockets[s].sent)

\* a frame is sent only on the WebSocket this.ws references, and only while it
\* is OPEN
SendsOnOpenCurrent ==
  \A s \in SocketIds :
    Sends(s) => /\ s = current
                /\ sockets[s].readyState = "OPEN"
                /\ wsService'.ws = s
                /\ sockets'[s].readyState = "OPEN"
                /\ sockets'[s].sent[Len(sockets'[s].sent)].message.type = "subscribe"

\* the oldest 10 ms callback fires; the open event that set it was that of the
\* service's connection, which has closed or been released since
FiresAfterClose ==
  /\ subscribeTimers > 0
  /\ subscribeTimers' = subscribeTimers - 1
  /\ Head(announcing).referenced
  /\ Head(announcing).gone

\* C31 (no send on a non-OPEN connection): a subscribe message is sent only on
\* the service's current connection and only while it is OPEN; and when the
\* connection closes or is released between its open event and the firing of
\* the delayed announcement, that announcement sends nothing.
C31_NoSendUnlessOpen ==
  [][/\ SendsOnOpenCurrent
     /\ FiresAfterClose => \A s \in SocketIds : ~Sends(s)]_vars

(***************************************************************************)
(* The unset intent and the root intent (checked under SpecManager).       *)
(***************************************************************************)
\* the open event of WebSocket s
Opens(s) == sockets[s].readyState = "CONNECTING" /\ sockets'[s].readyState = "OPEN"

\* a 10 ms callback of ws.onopen fires
Fires == subscribeTimers > 0 /\ subscribeTimers' = subscribeTimers - 1

\* C32 (unset versus root intent): while the intent has never been set (null)
\* no subscribe message has been sent and none is pending, and an open event
\* schedules none; when the service's connection opens with an intent recorded,
\* the empty string (root) as any non-empty path, the announcement is scheduled,
\* and when it fires on the OPEN connection it sends {subscribe, intent}: for
\* the root, a subscribe message with path "".
C32_UnsetVersusRoot ==
  [][/\ wsService.currentPath = null
          => /\ subscribeTimers = 0
             /\ \A s \in SocketIds : sockets[s].sent = <<>>
     /\ \A s \in SocketIds :
          Opens(s) =>
            /\ \A t \in SocketIds : ~Sends(t)
            /\ wsService.currentPath = null => subscribeTimers' = subscribeTimers
            /\ (s = current /\ wsService.currentPath # null)
                  => subscribeTimers' = subscribeTimers + 1
     /\ (Fires /\ isOpen(World))
          => sockets'[current].sent =
               Append(sockets[current].sent,
                      [message |-> subscribeMessage(wsService.currentPath),
                       by |-> "onopen"])]_vars

\* C32 witness: subscribePath('') was called while connecting; the connection
\* opened and its open handler's announcement, the only message sent, carries
\* the path "".
C32_Witness ==
  /\ Settled
  /\ wsService.currentPath = ""
  /\ sockets[current].by = "connect"
  /\ calls = 2
  /\ sockets[current].sent = <<[message |-> subscribeMessage(""), by |-> "onopen"]>>

====
